---- MODULE Spec2Model ----
(***************************************************************************)
(* FunkMF (creme/reco/funk_mf.py): online matrix factorisation.  The model *)
(* keeps the two latent stores, the two optimizer references and the       *)
(* optimizer objects they point to, and has one action per public call:    *)
(* predict_one and fit_one.                                                *)
(*                                                                         *)
(* Numbers are exact: latent values, targets, l2 and clip_gradient are     *)
(* integers, a learning rate is a fraction <<num, den>>, and a fit_one     *)
(* whose step is not an integer vector, or whose result leaves             *)
(* -MaxVal..MaxVal, lies outside the bounds of the model.                  *)
(***************************************************************************)
EXTENDS Integers, Sequences, FiniteSets, TLC

VARIABLES n_factors, l2, clip_gradient, u_optimizer, i_optimizer, optimizers,
          u_latents, i_latents, rng, last, calls

vars == <<n_factors, l2, clip_gradient, u_optimizer, i_optimizer, optimizers,
          u_latents, i_latents, rng, last, calls>>

config == <<n_factors, l2, clip_gradient>>

(* ------------------------------ bounds -------------------------------- *)

MaxCalls == 2
MaxFactors == 2
MaxClip == 40
MaxVal == 2000

Users == {1, 2}
Items == {1, 2}
Targets == {0, 3}
L2Values == {0, 1, 4}
ClipValues == {2, MaxClip}

(* ------------------------- numeric helpers ---------------------------- *)

Abs(x) == IF x < 0 THEN -x ELSE x

RECURSIVE SumTo(_, _)
SumTo(f, n) == IF n = 0 THEN 0 ELSE f[n] + SumTo(f, n - 1)

\* np.dot of two vectors of equal length
dot(a, b) == SumTo([j \in 1..Len(a) |-> a[j] * b[j]], Len(a))

\* scalar * ndarray
scale(c, a) == [j \in 1..Len(a) |-> c * a[j]]

\* ndarray + ndarray, ndarray - ndarray
vadd(a, b) == [j \in 1..Len(a) |-> a[j] + b[j]]
vsub(a, b) == [j \in 1..Len(a) |-> a[j] - b[j]]

\* lr * ndarray for a learning rate <<num, den>>
lr_scale(lr, a) == [j \in 1..Len(a) |-> (lr[1] * a[j]) \div lr[2]]
lr_exact(lr, a) == \A j \in 1..Len(a) : (lr[1] * a[j]) % lr[2] = 0

\* the model's range of latent values
InRange(w) == \A k \in DOMAIN w : \A j \in 1..Len(w[k]) : Abs(w[k][j]) <= MaxVal

\* a store that keeps only the key it was last given
setitem_evict(d, key, v) == key :> v

\* dict with d[key] = v
setitem(d, key, v) == [k \in (DOMAIN d) \cup {key} |-> IF k = key THEN v ELSE d[k]]

(* -------------------- collaborators (creme.optim, utils) -------------- *)

\* utils.math.clamp
clamp(x, minimum, maximum) ==
    IF x < minimum THEN minimum ELSE IF x > maximum THEN maximum ELSE x

\* a target the numeric layer accepts, and one it rejects (None)
Number(v) == [num |-> TRUE, val |-> v]
NotANumber == [num |-> FALSE, val |-> 0]

\* optim.losses.Squared.gradient
loss_gradient(y_true, y_pred) == 2 * (y_pred - y_true)

\* the stream of a seeded initializer: the r-th scalar it draws
SampleTable == <<2, -4, 4, -2, 6>>
Sample(r) == SampleTable[(r % Len(SampleTable)) + 1]

\* optim.initializers.Normal.__call__(shape): the vector drawn at stream position r
initializer(r, shape) == [j \in 1..shape |-> Sample(r + j - 1)]

\* optimizer objects
SGD(lr) == [kind |-> "SGD", lr |-> lr, rho |-> 0, n_iterations |-> 0, s |-> <<>>]
Momentum(lr, rho) ==
    [kind |-> "Momentum", lr |-> lr, rho |-> rho, n_iterations |-> 0, s |-> <<>>]

None == [kind |-> "None"]
OptimizerArgs == {None, SGD(<<1, 1>>), Momentum(<<1, 2>>, 1)}

\* Optimizer.update_after_pred(w, g) on the object opt: the weights, the object
\* after the call, and whether the step is exact in the model's numbers
update_after_pred(opt, w, g) ==
    LET zero(k) == [j \in 1..Len(g[k]) |-> 0]
        old_s(k) == IF k \in DOMAIN opt.s THEN opt.s[k] ELSE zero(k)
        new_s(k) == vadd(scale(opt.rho, old_s(k)), lr_scale(opt.lr, g[k]))
        step(k) == IF opt.kind = "Momentum" THEN new_s(k) ELSE lr_scale(opt.lr, g[k])
    IN  [w |-> [k \in DOMAIN w |-> IF k \in DOMAIN g THEN vsub(w[k], step(k)) ELSE w[k]],
         opt |-> [opt EXCEPT !.n_iterations = @ + 1,
                             !.s = IF opt.kind = "Momentum"
                                   THEN [k \in (DOMAIN opt.s) \cup (DOMAIN g) |->
                                            IF k \in DOMAIN g THEN new_s(k) ELSE opt.s[k]]
                                   ELSE @],
         exact |-> \A k \in DOMAIN g : lr_exact(opt.lr, g[k])]

(* ------------------------------ FunkMF -------------------------------- *)

\* the factory called with a shape that is not n_factors
random_latents_wrong_shape(r) == initializer(r, n_factors + 1)

\* functools.partial(self.initializer, shape=self.n_factors)
random_latents(r) == initializer(r, n_factors)

\* a lookup that calls the factory whether or not the key is stored
getitem_always_init(latents, key, r) ==
    [latents |-> setitem(latents, key, random_latents(r)), rng |-> r + n_factors]

\* collections.defaultdict.__getitem__: a missing key is created by the factory
getitem(latents, key, r) ==
    IF key \in DOMAIN latents
    THEN [latents |-> latents, rng |-> r]
    ELSE [latents |-> setitem(latents, key, random_latents(r)), rng |-> r + n_factors]

_predict_one(user, item) ==
    LET u == getitem(u_latents, user, rng)
        i == getitem(i_latents, item, u.rng)
    IN  [u_latents |-> u.latents, i_latents |-> i.latents, rng |-> i.rng,
         ret |-> dot(u.latents[user], i.latents[item])]

\* the regularization term with its sign flipped
u_latent_grad_minus_l2(g_loss, u_vec, i_vec) ==
    vsub(scale(g_loss, i_vec), scale(l2, u_vec))

u_latent_grad(g_loss, u_vec, i_vec) == vadd(scale(g_loss, i_vec), scale(l2, u_vec))

i_latent_grad(g_loss, u_vec, i_vec) == vadd(scale(g_loss, u_vec), scale(l2, i_vec))

\* the loss gradient used as it is, without the clamp
unclipped_gradient(y, y_pred) == loss_gradient(y, y_pred)

\* g_loss: the loss gradient at the prediction, clamped to the clip bound
clipped_gradient(y, y_pred) ==
    clamp(loss_gradient(y, y_pred), -clip_gradient, clip_gradient)

\* the item gradient built after the user-side update, from the updated user vector
update_latents_sequential(p, user, item, g_loss) ==
    LET u_vec == p.u_latents[user]
        i_vec == p.i_latents[item]
        u_grad == user :> u_latent_grad(g_loss, u_vec, i_vec)
        u == update_after_pred(optimizers[u_optimizer], p.u_latents, u_grad)
        opts1 == [optimizers EXCEPT ![u_optimizer] = u.opt]
        i_grad == item :> i_latent_grad(g_loss, u.w[user], i_vec)
        i == update_after_pred(opts1[i_optimizer], p.i_latents, i_grad)
        opts2 == [opts1 EXCEPT ![i_optimizer] = i.opt]
    IN  [u_latents |-> u.w, i_latents |-> i.w, optimizers |-> opts2,
         exact |-> u.exact /\ i.exact]

\* the item gradient stored under the user's key
update_latents_wrong_key(p, user, item, g_loss) ==
    LET u_vec == p.u_latents[user]
        i_vec == p.i_latents[item]
        u_grad == user :> u_latent_grad(g_loss, u_vec, i_vec)
        i_grad == user :> i_latent_grad(g_loss, u_vec, i_vec)
        u == update_after_pred(optimizers[u_optimizer], p.u_latents, u_grad)
        opts1 == [optimizers EXCEPT ![u_optimizer] = u.opt]
        i == update_after_pred(opts1[i_optimizer], p.i_latents, i_grad)
        opts2 == [opts1 EXCEPT ![i_optimizer] = i.opt]
    IN  [u_latents |-> u.w, i_latents |-> i.w, optimizers |-> opts2,
         exact |-> u.exact /\ i.exact]

\* The latent gradients and the two optimizer calls, from the stores p that the
\* prediction left.  Both gradients are built before either optimizer runs; the
\* user-side optimizer runs first, the item-side one on the objects it left.
update_latents(p, user, item, g_loss) ==
    LET u_vec == p.u_latents[user]
        i_vec == p.i_latents[item]
        u_grad == user :> u_latent_grad(g_loss, u_vec, i_vec)
        i_grad == item :> i_latent_grad(g_loss, u_vec, i_vec)
        u == update_after_pred(optimizers[u_optimizer], p.u_latents, u_grad)
        opts1 == [optimizers EXCEPT ![u_optimizer] = u.opt]
        i == update_after_pred(opts1[i_optimizer], p.i_latents, i_grad)
        opts2 == [opts1 EXCEPT ![i_optimizer] = i.opt]
    IN  [u_latents |-> u.w, i_latents |-> i.w, optimizers |-> opts2,
         exact |-> u.exact /\ i.exact]

_fit_one(user, item, y) ==
    LET p == _predict_one(user, item)
    IN  IF ~y.num
        THEN \* loss.gradient raises: the call ends after the prediction
             [ok |-> FALSE, u_latents |-> p.u_latents, i_latents |-> p.i_latents,
              rng |-> p.rng, optimizers |-> optimizers, exact |-> TRUE,
              g_raw |-> 0, g_loss |-> 0]
        ELSE LET g_loss == clipped_gradient(y.val, p.ret)
                 r == update_latents(p, user, item, g_loss)
             IN  [ok |-> TRUE, u_latents |-> r.u_latents, i_latents |-> r.i_latents,
                  rng |-> p.rng, optimizers |-> r.optimizers, exact |-> r.exact,
                  g_raw |-> loss_gradient(y.val, p.ret), g_loss |-> g_loss]

(* ------------------------------ actions ------------------------------- *)

\* FunkMF.__init__
Init ==
    /\ n_factors \in 0..MaxFactors
    /\ l2 \in L2Values
    /\ clip_gradient \in ClipValues
    /\ \E optimizer \in OptimizerArgs :
          IF optimizer = None
          THEN /\ optimizers = <<SGD(<<1, 2>>), SGD(<<1, 2>>)>>
               /\ u_optimizer = 1
               /\ i_optimizer = 2
          ELSE /\ optimizers = <<optimizer>>
               /\ u_optimizer = 1
               /\ i_optimizer = 1
    /\ u_latents = <<>>
    /\ i_latents = <<>>
    /\ rng = 0
    /\ last = [op |-> "init"]
    /\ calls = 0

\* predict_one({'user': user, 'item': item})
Predict(user, item) ==
    LET p == _predict_one(user, item)
    IN  /\ calls < MaxCalls
        /\ calls' = calls + 1
        /\ u_latents' = p.u_latents
        /\ i_latents' = p.i_latents
        /\ rng' = p.rng
        /\ last' = [op |-> "predict", user |-> user, item |-> item, ret |-> p.ret,
                    again |-> last.op = "predict" /\ last.user = user /\ last.item = item]
        /\ UNCHANGED <<config, u_optimizer, i_optimizer, optimizers>>

\* fit_one({'user': user, 'item': item}, y)
FitOne(user, item, y) ==
    LET f == _fit_one(user, item, y)
    IN  /\ calls < MaxCalls
        /\ f.exact
        /\ InRange(f.u_latents)
        /\ InRange(f.i_latents)
        /\ calls' = calls + 1
        /\ u_latents' = f.u_latents
        /\ i_latents' = f.i_latents
        /\ optimizers' = f.optimizers
        /\ rng' = f.rng
        /\ last' = [op |-> "fit", user |-> user, item |-> item, y |-> y, ok |-> f.ok,
                    g_raw |-> f.g_raw, g_loss |-> f.g_loss]
        /\ UNCHANGED <<config, u_optimizer, i_optimizer>>

\* the targets a caller passes: some ratings, the current prediction, a non-number
YValues(user, item) ==
    {Number(t) : t \in Targets} \cup {Number(_predict_one(user, item).ret), NotANumber}

Next ==
    \/ \E user \in Users, item \in Items : Predict(user, item)
    \/ \E user \in Users, item \in Items : \E y \in YValues(user, item) : FitOne(user, item, y)

Spec == Init /\ [][Next]_vars

(* ------------------------------ claims -------------------------------- *)

\* the step is a call; a fit_one that returned; a fit_one that raised; a predict_one
IsCall == calls' = calls + 1
FitOk == IsCall /\ last'.op = "fit" /\ last'.ok
FitFailed == IsCall /\ last'.op = "fit" /\ ~last'.ok
IsPredict == IsCall /\ last'.op = "predict"

\* the squared Euclidean norm
NormSq(a) == dot(a, a)

\* the state holds the result of a fit_one that returned
AfterFitOk == last.op = "fit" /\ last.ok

\* C1: in every fit_one that returns, the user gradient is g_loss * old_i + l2 * old_u
\* and the item gradient is g_loss * old_u + l2 * old_i, with old_u and old_i the
\* vectors as the call found (or created) them: the new user vector and the new
\* item vector are the optimizers' steps from those two gradients, and the item
\* gradient never sees the user vector that the user-side step produced.
C1_SnapshotIsolation ==
    [][FitOk =>
        LET user == last'.user
            item == last'.item
            p == _predict_one(user, item)
            old_u == p.u_latents[user]
            old_i == p.i_latents[item]
            c == last'.g_loss
            grad_u == [j \in 1..n_factors |-> c * old_i[j] + l2 * old_u[j]]
            grad_i == [j \in 1..n_factors |-> c * old_u[j] + l2 * old_i[j]]
            u_res == update_after_pred(optimizers[u_optimizer], p.u_latents, user :> grad_u)
            i_opt == IF i_optimizer = u_optimizer THEN u_res.opt
                     ELSE optimizers[i_optimizer]
            i_res == update_after_pred(i_opt, p.i_latents, item :> grad_i)
        IN  /\ u_latents'[user] = u_res.w[user]
            /\ i_latents'[item] = i_res.w[item]
    ]_vars

C1_Witness ==
    /\ AfterFitOk
    /\ last.g_loss # 0
    /\ l2 # 0
    /\ n_factors > 0
    /\ NormSq(u_latents[last.user]) > 0

\* C2: in every fit_one that returns, the object behind u_optimizer ends as the
\* user-side update alone leaves it, and the object behind i_optimizer ends as the
\* item-side update alone, run on the state from before the call, leaves it:
\* neither side reads or changes the other side's optimizer state.
C2_OptimizersIndependent ==
    [][FitOk =>
        LET user == last'.user
            item == last'.item
            p == _predict_one(user, item)
            u_grad == user :> u_latent_grad(last'.g_loss, p.u_latents[user], p.i_latents[item])
            i_grad == item :> i_latent_grad(last'.g_loss, p.u_latents[user], p.i_latents[item])
            user_only == update_after_pred(optimizers[u_optimizer], p.u_latents, u_grad)
            item_only == update_after_pred(optimizers[i_optimizer], p.i_latents, i_grad)
        IN  /\ optimizers'[u_optimizer] = user_only.opt
            /\ optimizers'[i_optimizer] = item_only.opt
    ]_vars

\* C3: a fit_one that raises leaves both stores and the optimizers as they were
\* before the call.
C3_FailureChangesNothing ==
    [][FitFailed =>
        /\ u_latents' = u_latents
        /\ i_latents' = i_latents
        /\ optimizers' = optimizers
    ]_vars

\* C4: a fit_one(u, i, y) that returns leaves the vector of every other stored user
\* key and of every other stored item key as it was, adds no key other than u and
\* i, and leaves n_factors, l2 and clip_gradient as they were.
C4_Frame ==
    [][FitOk =>
        /\ \A k \in (DOMAIN u_latents) \ {last'.user} :
              k \in DOMAIN u_latents' /\ u_latents'[k] = u_latents[k]
        /\ \A k \in (DOMAIN i_latents) \ {last'.item} :
              k \in DOMAIN i_latents' /\ i_latents'[k] = i_latents[k]
        /\ DOMAIN u_latents' \subseteq (DOMAIN u_latents) \cup {last'.user}
        /\ DOMAIN i_latents' \subseteq (DOMAIN i_latents) \cup {last'.item}
        /\ config' = config
    ]_vars

C4_Witness ==
    /\ AfterFitOk
    /\ n_factors > 0
    /\ \E k \in DOMAIN u_latents : k # last.user
    /\ \E k \in DOMAIN i_latents : k # last.item
    /\ last.g_loss # 0

\* C5: both stores start empty and every call (predict_one, fit_one that returns,
\* fit_one that raises) leaves the user store with the keys it had plus the call's
\* user key, and the item store with the keys it had plus the call's item key: the
\* keys stored are the keys that appeared, and none is ever removed.
C5_KeyGrowth ==
    /\ DOMAIN u_latents = {} /\ DOMAIN i_latents = {}
    /\ [][IsCall =>
            /\ DOMAIN u_latents' = (DOMAIN u_latents) \cup {last'.user}
            /\ DOMAIN i_latents' = (DOMAIN i_latents) \cup {last'.item}
       ]_vars

C5_Witness ==
    /\ last.op # "init"
    /\ Cardinality(DOMAIN u_latents) = 2
    /\ Cardinality(DOMAIN i_latents) = 1

\* C6: in every fit_one that returns, with raw the loss gradient at the prediction
\* and c = clip_gradient, the factor used is c when raw > c, -c when raw < -c and
\* raw otherwise; it lies in -c..c; and the stores and optimizers after the call
\* are those the update yields from the pre-call state with that factor.
C6_Clipping ==
    [][FitOk =>
        LET user == last'.user
            item == last'.item
            p == _predict_one(user, item)
            raw == loss_gradient(last'.y.val, p.ret)
            c == clip_gradient
            used == IF raw > c THEN c ELSE IF raw < -c THEN -c ELSE raw
            r == update_latents(p, user, item, used)
        IN  /\ last'.g_loss = used
            /\ -c <= last'.g_loss /\ last'.g_loss <= c
            /\ u_latents' = r.u_latents
            /\ i_latents' = r.i_latents
            /\ optimizers' = r.optimizers
    ]_vars

C6_Witness ==
    /\ AfterFitOk
    /\ last.g_raw > clip_gradient
    /\ last.g_loss = clip_gradient
    /\ n_factors > 0

\* C7: predict_one(u, i) returns the dot product of the vectors stored for u and i
\* after the call, changes no vector that was stored before it and no optimizer,
\* adds no key other than u and i, and a predict_one(u, i) that directly follows a
\* predict_one(u, i) returns the same value and leaves both stores as they were.
C7_PredictFrame ==
    [][IsPredict =>
        LET user == last'.user
            item == last'.item
            a == u_latents'[user]
            b == i_latents'[item]
        IN  /\ last'.ret = SumTo([j \in 1..n_factors |-> a[j] * b[j]], n_factors)
            /\ \A k \in DOMAIN u_latents : u_latents'[k] = u_latents[k]
            /\ \A k \in DOMAIN i_latents : i_latents'[k] = i_latents[k]
            /\ DOMAIN u_latents' \subseteq (DOMAIN u_latents) \cup {user}
            /\ DOMAIN i_latents' \subseteq (DOMAIN i_latents) \cup {item}
            /\ optimizers' = optimizers
            /\ last'.again =>
                  /\ last'.ret = last.ret
                  /\ u_latents' = u_latents
                  /\ i_latents' = i_latents
    ]_vars

C7_Witness ==
    /\ last.op = "predict"
    /\ last.again
    /\ n_factors > 0
    /\ last.ret # 0

\* C8: in every fit_one that returns, running the item-side update first and the
\* user-side update second, from the same pre-call state and the same two
\* gradients, yields the stores and optimizers the call left.
C8_OrderIndependent ==
    [][FitOk =>
        LET user == last'.user
            item == last'.item
            p == _predict_one(user, item)
            u_grad == user :> u_latent_grad(last'.g_loss, p.u_latents[user], p.i_latents[item])
            i_grad == item :> i_latent_grad(last'.g_loss, p.u_latents[user], p.i_latents[item])
            i == update_after_pred(optimizers[i_optimizer], p.i_latents, i_grad)
            opts1 == [optimizers EXCEPT ![i_optimizer] = i.opt]
            u == update_after_pred(opts1[u_optimizer], p.u_latents, u_grad)
            opts2 == [opts1 EXCEPT ![u_optimizer] = u.opt]
        IN  /\ u_latents' = u.w
            /\ i_latents' = i.w
            /\ optimizers' = opts2
    ]_vars

\* a fit_one that returns, with l2 > 0 and the target equal to the prediction
ZeroGradientFit ==
    /\ FitOk
    /\ l2 > 0
    /\ last'.y.val = _predict_one(last'.user, last'.item).ret

\* the norm of new is no larger than that of old, and smaller when old is not zero
Shrinks(old, new) ==
    /\ NormSq(new) <= NormSq(old)
    /\ NormSq(old) > 0 => NormSq(new) < NormSq(old)

\* C9 as stated: with l2 > 0, every fit_one whose target equals the current
\* prediction leaves the norm of u's vector and of i's vector no larger, and
\* strictly smaller when the vector is not zero.
C9_DecayAnyOptimizer ==
    [][ZeroGradientFit =>
        LET p == _predict_one(last'.user, last'.item)
        IN  /\ Shrinks(p.u_latents[last'.user], u_latents'[last'.user])
            /\ Shrinks(p.i_latents[last'.item], i_latents'[last'.item])
    ]_vars

\* a plain gradient step of constant learning rate lr with 0 < lr * l2 < 2
PlainStep(opt) ==
    /\ opt.kind = "SGD"
    /\ 0 < opt.lr[1] * l2
    /\ opt.lr[1] * l2 < 2 * opt.lr[2]

\* C9 amended: with l2 > 0 and both optimizers plain SGD of a constant learning
\* rate lr with lr * l2 < 2, every fit_one whose target equals the current
\* prediction multiplies u's vector and i's vector by 1 - lr * l2, so each norm is
\* no larger than before and strictly smaller when the vector is not zero.
C9_DecayPlainSGD ==
    [][ZeroGradientFit /\ PlainStep(optimizers[u_optimizer])
                       /\ PlainStep(optimizers[i_optimizer]) =>
        LET p == _predict_one(last'.user, last'.item)
            old_u == p.u_latents[last'.user]
            old_i == p.i_latents[last'.item]
            new_u == u_latents'[last'.user]
            new_i == i_latents'[last'.item]
            u_lr == optimizers[u_optimizer].lr
            i_lr == optimizers[i_optimizer].lr
        IN  /\ Shrinks(old_u, new_u)
            /\ Shrinks(old_i, new_i)
            /\ \A j \in 1..n_factors :
                  /\ u_lr[2] * new_u[j] = (u_lr[2] - u_lr[1] * l2) * old_u[j]
                  /\ i_lr[2] * new_i[j] = (i_lr[2] - i_lr[1] * l2) * old_i[j]
    ]_vars

C9_Witness ==
    /\ AfterFitOk
    /\ l2 > 0
    /\ last.g_raw = 0
    /\ PlainStep(optimizers[u_optimizer])
    /\ PlainStep(optimizers[i_optimizer])
    /\ NormSq(u_latents[last.user]) > 0
    /\ NormSq(i_latents[last.item]) > 0

\* C10: every stored user vector and every stored item vector has n_factors
\* entries, and after every call the call's user key and item key are stored: a
\* key that was absent was created, not refused.
C10_VectorLength ==
    /\ \A k \in DOMAIN u_latents : Len(u_latents[k]) = n_factors
    /\ \A k \in DOMAIN i_latents : Len(i_latents[k]) = n_factors
    /\ last.op # "init" => last.user \in DOMAIN u_latents /\ last.item \in DOMAIN i_latents

C10_Witness ==
    /\ AfterFitOk
    /\ n_factors > 1
    /\ Cardinality(DOMAIN u_latents) = 2
    /\ Cardinality(DOMAIN i_latents) = 2

====
